---- MODULE Spec2Model ----
(***************************************************************************)
(* Smart Meal Planner backend: constraint normalisation and filtering      *)
(* (backend/filters.py), the similarity ranker (backend/                   *)
(* similarity_engine.py) and the recommendation pipeline (backend/         *)
(* pipeline.py), as a state machine.                                       *)
(*                                                                         *)
(* Conventions.                                                            *)
(*  - A Python value that may be None (or a NaN cell of the DataFrame) is  *)
(*    an option: None is <<>>, a value v is <<v>>.                         *)
(*  - A Python dict is a function whose DOMAIN is the set of its keys.     *)
(*  - A Python str that the code lower-cases or searches is a sequence of  *)
(*    one-character strings; categorical values are plain strings.         *)
(*  - Recipe identifiers are the 0-based row labels of the DataFrame       *)
(*    (pd.read_csv gives a RangeIndex), so row id is catalog[id + 1].      *)
(***************************************************************************)
EXTENDS Integers, Sequences, FiniteSets, TLC

VARIABLES catalog, pc, user, constraints, candidate_idx, anchor_idx,
          similar, result, trace, call, ret, assets

vars == <<catalog, pc, user, constraints, candidate_idx, anchor_idx,
          similar, result, trace, call, ret, assets>>

----------------------------------------------------------------------------
(* Bounds of the model.                                                    *)

\* Largest catalog (number of recipe rows) explored.
MaxRows == 3
\* Largest number of keys the extractor's JSON object sets (pipeline).
MaxExtract == 2
\* Largest number of keys of a constraints dict given to the filter alone.
MaxSet == 1
\* Largest catalog given to the filter alone.
MaxFilterRows == 2
\* Longest tastes_include list given to normalize_constraints alone.
MaxTastes == 2
\* Largest top_n / limit a caller passes (the smallest is -1).
MaxTop == 2
\* Number of request threads that call load_similarity_assets.
MaxCallers == 3

----------------------------------------------------------------------------
(* Python values.                                                          *)

None == <<>>
Some(v) == <<v>>

\* dict.get(k): the value, or None for a missing key.
Get(c, k) == IF k \in DOMAIN c THEN c[k] ELSE None

\* c[k] = v on a dict.
Put(c, k, v) == [x \in (DOMAIN c) \cup {k} |-> IF x = k THEN v ELSE c[x]]

\* c.pop(k, None) on a dict.
Pop(c, k) == [x \in (DOMAIN c) \ {k} |-> c[x]]

EmptyDict == [x \in {} |-> None]

\* `x or []` for a list-valued key: None and the empty list both give [].
OrEmptyList(opt) == IF opt = None THEN <<>> ELSE opt[1]

\* Series.fillna(0) on one numeric cell.
FillNa0(cell) == IF cell = None THEN 0 ELSE cell[1]

Max(a, b) == IF a >= b THEN a ELSE b
Min(a, b) == IF a <= b THEN a ELSE b

\* DataFrame.head(n): the first n rows; for a negative n, all rows but the
\* last |n|.
PdHead(s, n) ==
  IF n >= 0 THEN SubSeq(s, 1, Min(n, Len(s)))
  ELSE SubSeq(s, 1, Max(0, Len(s) + n))

\* The elements of a sequence.
Range(s) == {s[i] : i \in 1..Len(s)}

----------------------------------------------------------------------------
(* Strings.                                                                *)

\* str.lower() on one character (the upper-case letters the inputs use).
LowerChar(ch) ==
  CASE ch = "S" -> "s"
    [] ch = "T" -> "t"
    [] OTHER -> ch

\* str.lower().
Lower(s) == [i \in 1..Len(s) |-> LowerChar(s[i])]

w_sweet  == <<"s", "w", "e", "e", "t">>
w_spicy  == <<"s", "p", "i", "c", "y">>
w_savory == <<"s", "a", "v", "o", "r", "y">>
w_sour   == <<"s", "o", "u", "r">>
w_bitter == <<"b", "i", "t", "t", "e", "r">>
w_umami  == <<"u", "m", "a", "m", "i">>

TASTE_VOCAB == {w_sweet, w_spicy, w_savory, w_sour, w_bitter, w_umami}

\* re.search(pat, text, re.IGNORECASE) anchored at offset off: Series.str.
\* contains(pat, case=False) keeps pandas' default regex=True, so "." in the
\* pattern matches any character.
ReMatchAt(text, pat, off) ==
  \A i \in 1..Len(pat) :
     \/ pat[i] = "."
     \/ LowerChar(pat[i]) = LowerChar(text[off + i - 1])

\* Series.str.contains(pat, case=False) on one cell.
StrContains(text, pat) ==
  \E off \in 1..(Len(text) - Len(pat) + 1) : ReMatchAt(text, pat, off)

\* The specification's reading of "contains": case-insensitive substring.
IsSubstringCI(text, pat) ==
  \E off \in 1..(Len(text) - Len(pat) + 1) :
     \A i \in 1..Len(pat) : LowerChar(pat[i]) = LowerChar(text[off + i - 1])

----------------------------------------------------------------------------
(* backend/filters.py                                                      *)

\* The loop body of normalize_constraints: empty entries are skipped, an
\* entry whose lower-cased value is in the vocabulary is a real taste.
IsRealTaste(t) == t # <<>> /\ Lower(t) \in TASTE_VOCAB

\* ... and any other non-empty entry is a misfiled cuisine.
IsMisfiledCuisine(t) == t # <<>> /\ Lower(t) \notin TASTE_VOCAB

\* Mutant: line 104 is missing, tastes_include is not written back.
normalize_without_tastes_written(c) ==
  LET d == IF c = None THEN EmptyDict ELSE c[1]
      tastes_inc == OrEmptyList(Get(d, "tastes_include"))
      cuisines_inc == OrEmptyList(Get(d, "cuisines_include"))
      misfiled_cuisines == SelectSeq(tastes_inc, IsMisfiledCuisine)
  IN  Put(d, "cuisines_include", Some(cuisines_inc \o misfiled_cuisines))

\* Mutant: line 105 concatenates the other way round, the misfiled entries
\* come before the cuisines that were already there.
normalize_with_misfiled_first(c) ==
  LET d == IF c = None THEN EmptyDict ELSE c[1]
      tastes_inc == OrEmptyList(Get(d, "tastes_include"))
      cuisines_inc == OrEmptyList(Get(d, "cuisines_include"))
      real_tastes == SelectSeq(tastes_inc, IsRealTaste)
      misfiled_cuisines == SelectSeq(tastes_inc, IsMisfiledCuisine)
  IN  Put(Put(d, "tastes_include", Some(real_tastes)),
          "cuisines_include", Some(misfiled_cuisines \o cuisines_inc))

\* normalize_constraints(c), c an option of a dict.  The result is the new
\* dict the function returns.
normalize_constraints(c) ==
  LET d == IF c = None THEN EmptyDict ELSE c[1]
      tastes_inc == OrEmptyList(Get(d, "tastes_include"))
      cuisines_inc == OrEmptyList(Get(d, "cuisines_include"))
      real_tastes == SelectSeq(tastes_inc, IsRealTaste)
      misfiled_cuisines == SelectSeq(tastes_inc, IsMisfiledCuisine)
  IN  Put(Put(d, "tastes_include", Some(real_tastes)),
          "cuisines_include", Some(cuisines_inc \o misfiled_cuisines))

\* Line 89 rebinds the local c to dict(c or {}), a copy: the writes of lines
\* 104-105 go to the copy.
CopiesArgument == TRUE

\* The caller's object after normalize_constraints(c) returned: untouched
\* when the local is a copy (or when `c or {}` made a fresh dict), else the
\* very dict the function wrote to.
ArgAfterNormalize(c) ==
  IF CopiesArgument \/ c = None \/ c[1] = EmptyDict
  THEN c
  ELSE Some(normalize_constraints(c))

FLAGS == <<"is_vegan", "is_vegetarian", "is_gluten_free", "is_dairy_free",
           "is_nut_free", "is_halal", "is_kosher">>

difficulty_order == <<"easy", "medium", "hard">>

\* list.index(x) as a 1-based position.
IndexOf(s, x) == CHOOSE i \in 1..Len(s) : s[i] = x

\* cook_speed is a str ([s |-> "fast"]) or a list of str ([l |-> <<...>>]).
IsStr(x) == DOMAIN x = {"s"}

\* `if cook_speed:` : None, "" and [] are falsy.
CookSpeedTruthy(opt) ==
  /\ opt # None
  /\ IF IsStr(opt[1]) THEN opt[1]["s"] # "" ELSE opt[1]["l"] # <<>>

\* Lines 125-126: a str becomes the one-element list.
CookSpeedList(x) == IF IsStr(x) THEN <<x["s"]>> ELSE x["l"]

\* Series.fillna("") on one text cell.
FillNaStr(cell) == IF cell = None THEN <<>> ELSE cell[1]

\* The row labels of a DataFrame, in order.
Ids(recipes) == [i \in 1..Len(recipes) |-> i - 1]

\* Lines 138-141: for each flag in turn, `df = df[df[flag] == True]` when the
\* constraint's value is the object True.
RECURSIVE KeepFlagged(_, _, _, _)
KeepFlagged(df, recipes, c, flags) ==
  IF flags = <<>> THEN df
  ELSE KeepFlagged(
         IF Get(c, Head(flags)) = Some(TRUE)
         THEN SelectSeq(df, LAMBDA id : Head(flags) \in recipes[id + 1].flags)
         ELSE df,
         recipes, c, Tail(flags))

\* Mutant: the patterns are alternatives (one mask for "p1|p2|..."), not
\* successive masks.
RECURSIVE KeepContainingAny(_, _, _, _)
KeepContainingAny(df, recipes, col, pats) ==
  IF pats = <<>> THEN df
  ELSE SelectSeq(df, LAMBDA id :
         \E i \in 1..Len(pats) :
            StrContains(FillNaStr(recipes[id + 1][col]), pats[i]))

\* Lines 147-149 and 157-159: for each pattern in turn,
\* `df = df[df[col].fillna("").astype(str).str.contains(t, case=False)]`.
RECURSIVE KeepContaining(_, _, _, _)
KeepContaining(df, recipes, col, pats) ==
  IF pats = <<>> THEN df
  ELSE KeepContaining(
         SelectSeq(df, LAMBDA id :
                         StrContains(FillNaStr(recipes[id + 1][col]), Head(pats))),
         recipes, col, Tail(pats))

\* Lines 151-153: the same with the mask negated.
RECURSIVE DropContaining(_, _, _, _)
DropContaining(df, recipes, col, pats) ==
  IF pats = <<>> THEN df
  ELSE DropContaining(
         SelectSeq(df, LAMBDA id :
                         ~StrContains(FillNaStr(recipes[id + 1][col]), Head(pats))),
         recipes, col, Tail(pats))

\* Lines 117-120.
FilterTime(df, recipes, c) ==
  LET max_total == Get(c, "max_total_minutes")
  IN  IF max_total # None
      THEN SelectSeq(df, LAMBDA id :
             FillNa0(recipes[id + 1].est_prep_time_min)
               + FillNa0(recipes[id + 1].est_cook_time_min) <= max_total[1])
      ELSE df

\* Lines 123-127.
FilterCookSpeed(df, recipes, c) ==
  LET cook_speed == Get(c, "cook_speed")
  IN  IF CookSpeedTruthy(cook_speed)
      THEN SelectSeq(df, LAMBDA id :
             recipes[id + 1].cook_speed \in Range(CookSpeedList(cook_speed[1])))
      ELSE df

\* Lines 130-135.
FilterDifficulty(df, recipes, c) ==
  LET difficulty_max == Get(c, "difficulty_max")
  IN  IF difficulty_max # None /\ difficulty_max[1] \in Range(difficulty_order)
      THEN LET max_idx == IndexOf(difficulty_order, difficulty_max[1])
               allowed == Range(SubSeq(difficulty_order, 1, max_idx))
           IN  SelectSeq(df, LAMBDA id : recipes[id + 1].difficulty \in allowed)
      ELSE df

\* Lines 162-163: a NaN score compares False.
FilterHealthiness(df, recipes, c) ==
  LET healthiness_min == Get(c, "healthiness_min")
  IN  IF healthiness_min # None
      THEN SelectSeq(df, LAMBDA id :
             /\ recipes[id + 1].healthiness_score # None
             /\ recipes[id + 1].healthiness_score[1] >= healthiness_min[1])
      ELSE df

\* filter_recipes_by_constraints(recipes_df, constraints): the masks applied
\* one after the other to the shrinking frame, and df.index of what is left.
filter_recipes_by_constraints(recipes, c) ==
  LET df1 == FilterTime(Ids(recipes), recipes, c)
      df2 == FilterCookSpeed(df1, recipes, c)
      df3 == FilterDifficulty(df2, recipes, c)
      df4 == KeepFlagged(df3, recipes, c, FLAGS)
      df5 == KeepContaining(df4, recipes, "tastes",
                            OrEmptyList(Get(c, "tastes_include")))
      df6 == DropContaining(df5, recipes, "tastes",
                            OrEmptyList(Get(c, "tastes_exclude")))
      df7 == KeepContaining(df6, recipes, "cuisine_list",
                            OrEmptyList(Get(c, "cuisines_include")))
  IN  FilterHealthiness(df7, recipes, c)

----------------------------------------------------------------------------
(* backend/similarity_engine.py                                            *)

\* A row of the combined feature matrix is a small integer vector here: the
\* TF-IDF and scaled numeric columns of lines 104-111 (the scaled columns may
\* be negative).
Dot(u, v) == u[1] * v[1] + u[2] * v[2]

\* cosine_similarity(combined_features[a], combined_features)[j], kept exact
\* as num / sqrt(den): num = u.v and den = |u|^2 |v|^2 (sklearn gives 0 for
\* a zero row).
Cosine(u, v) ==
  LET den == Dot(u, u) * Dot(v, v)
  IN  IF den = 0 THEN [num |-> 0, den |-> 1] ELSE [num |-> Dot(u, v), den |-> den]

\* sign(num) * num^2, so that x >= y is a comparison of integers.
SignedSquare(n) == IF n >= 0 THEN n * n ELSE -(n * n)

\* s >= t for two cosine values.
ScoreGE(s, t) == SignedSquare(s.num) * t.den >= SignedSquare(t.num) * s.den

\* Lines 150-156: sim_df, one row per recipe, in catalog order.
SimDf(recipes, recipe_index) ==
  [i \in 1..Len(recipes) |->
     [id |-> i - 1,
      recipe_title |-> recipes[i].recipe_title,
      similarity_score |-> Cosine(recipes[recipe_index + 1].features,
                                  recipes[i].features)]]

\* The permutations of a sequence.
SeqPermutations(s) ==
  {[i \in 1..Len(s) |-> s[f[i]]] :
     f \in {g \in [1..Len(s) -> 1..Len(s)] :
              \A i, j \in 1..Len(s) : i # j => g[i] # g[j]}}

\* Line 158: sort_values(by="similarity_score", ascending=False) with the
\* default kind="quicksort", which is not stable: rows with equal scores come
\* out in an order the build decides, so every descending order is possible.
SortedBySimilarity(df) ==
  {p \in SeqPermutations(df) :
     \A i \in 1..(Len(p) - 1) :
        ScoreGE(p[i].similarity_score, p[i + 1].similarity_score)}

\* Line 159: drop_duplicates(subset="recipe_title", keep="first").
DropDuplicateTitles(df) ==
  LET keep == {i \in 1..Len(df) :
                 \A j \in 1..(i - 1) : df[j].recipe_title # df[i].recipe_title}
      F[i \in 0..Len(df)] ==
        IF i = 0 THEN <<>>
        ELSE IF i \in keep THEN Append(F[i - 1], df[i]) ELSE F[i - 1]
  IN  F[Len(df)]

\* Lines 158-162 for one sort order.
TopSimilarFrom(sorted, recipe_index, top_n) ==
  LET deduped == DropDuplicateTitles(sorted)
      others == SelectSeq(deduped, LAMBDA r : r.id # recipe_index)
  IN  PdHead(others, top_n)

\* get_top_similar_recipes(recipe_index, top_n): the outcomes the call can
\* have, each [raised, df]: an IndexError for an index outside the matrix,
\* else one frame per possible sort order.
get_top_similar_recipes(recipes, recipe_index, top_n) ==
  IF recipe_index < 0 \/ recipe_index >= Len(recipes)
  THEN {[raised |-> "IndexError", df |-> <<>>]}
  ELSE {[raised |-> "", df |-> TopSimilarFrom(sorted, recipe_index, top_n)] :
          sorted \in SortedBySimilarity(SimDf(recipes, recipe_index))}

----------------------------------------------------------------------------
(* backend/pipeline.py                                                     *)

\* a >= b for two healthiness_score cells in the descending sort of line 34:
\* NaN cells go last (na_position="last").
HealthGE(a, b) == b = None \/ (a # None /\ a[1] >= b[1])

\* pick_anchor_recipe_index(candidate_idx): the identifiers the call can
\* return (None for an empty index).  best[0] is the first row of
\* sort_values(by="healthiness_score", ascending=False), again the unstable
\* default sort: any candidate with the top score can come first.
pick_anchor_recipe_index(recipes, cand) ==
  IF Len(cand) = 0 THEN {None}
  ELSE {Some(id) : id \in
          {a \in Range(cand) :
             \A b \in Range(cand) :
                HealthGE(recipes[a + 1].healthiness_score,
                         recipes[b + 1].healthiness_score)}}

\* The over-fetch of line 45.
OverFetch == 50

\* Mutant: line 47 returns `filtered` without .head(top_n).
get_similar_recipes_untruncated(recipes, anchor_index, cand, top_n) ==
  {SelectSeq(raw.df, LAMBDA r : r.id \in Range(cand)) :
     raw \in get_top_similar_recipes(recipes, anchor_index, OverFetch)}

\* Mutant: line 46 is skipped, the ranker's frame is not intersected with
\* the candidates.
get_similar_recipes_unfiltered(recipes, anchor_index, cand, top_n) ==
  {PdHead(raw.df, top_n) :
     raw \in get_top_similar_recipes(recipes, anchor_index, OverFetch)}

\* get_similar_recipes_with_constraints(anchor_index, candidate_idx, top_n)
\* for a non-None anchor: the frames the call can return.
get_similar_recipes_with_constraints(recipes, anchor_index, cand, top_n) ==
  {PdHead(SelectSeq(raw.df, LAMBDA r : r.id \in Range(cand)), top_n) :
     raw \in get_top_similar_recipes(recipes, anchor_index, OverFetch)}

\* _serialize_recipe_row(row, similarity_score): the fields the claims read.
SerializeRecipeRow(recipes, id, score) ==
  [id |-> id, title |-> recipes[id + 1].recipe_title, similarity_score |-> score]

\* Mutant: line 150 without the floor at 0.
RelaxedWithoutFloor(c) ==
  LET r == Pop(c, "cook_speed")
  IN  IF "healthiness_min" \in DOMAIN r /\ r["healthiness_min"] # None
      THEN Put(r, "healthiness_min", Some(r["healthiness_min"][1] - 10))
      ELSE r

\* Lines 147-150: the relaxed copy of the constraints.
Relaxed(c) ==
  LET r == Pop(c, "cook_speed")
  IN  IF "healthiness_min" \in DOMAIN r /\ r["healthiness_min"] # None
      THEN Put(r, "healthiness_min", Some(Max(0, r["healthiness_min"][1] - 10)))
      ELSE r

\* `constraints.get("num_results") or top_n`: None and 0 are falsy.
NumResults(c, top_n) ==
  LET n == Get(c, "num_results")
  IN  IF n = None \/ n[1] = 0 THEN top_n ELSE n[1]

NoResultsMessage == "No recipes matched your constraints, even after relaxing cook speed and healthiness slightly. Try loosening your request (e.g., allow medium time or broader cuisines)."
NoAnchorMessage == "Could not select an anchor recipe from the candidates."
NoMatchMessage == "I couldn't find any recipes that match those constraints."

----------------------------------------------------------------------------
(* Inputs: the recipe rows a catalog is made of, and the constraint        *)
(* objects the extractor or a caller can produce.                          *)

w_thai  == <<"t", "h", "a", "i">>
w_Thai  == <<"T", "h", "a", "i">>
w_t_ai  == <<"t", ".", "a", "i">>
w_Spicy == <<"S", "p", "i", "c", "y">>

AllFlags == Range(FLAGS)

RowCurry ==
  [recipe_title |-> "curry", est_prep_time_min |-> Some(10),
   est_cook_time_min |-> Some(10), cook_speed |-> "fast",
   difficulty |-> "easy", flags |-> AllFlags, tastes |-> Some(w_spicy),
   cuisine_list |-> Some(w_thai), healthiness_score |-> Some(80),
   features |-> <<2, 1>>]

\* A second row with the same title, the same features and the same score.
RowCurryAgain ==
  [recipe_title |-> "curry", est_prep_time_min |-> Some(20),
   est_cook_time_min |-> Some(20), cook_speed |-> "slow",
   difficulty |-> "medium", flags |-> {"is_vegetarian"},
   tastes |-> Some(w_spicy \o <<" ">> \o w_sour),
   cuisine_list |-> Some(w_Thai), healthiness_score |-> Some(80),
   features |-> <<2, 1>>]

RowCake ==
  [recipe_title |-> "cake", est_prep_time_min |-> None,
   est_cook_time_min |-> Some(30), cook_speed |-> "medium",
   difficulty |-> "hard", flags |-> {"is_vegetarian", "is_nut_free"},
   tastes |-> Some(w_sweet), cuisine_list |-> None,
   healthiness_score |-> Some(40), features |-> <<1, 2>>]

RowSalad ==
  [recipe_title |-> "salad", est_prep_time_min |-> Some(5),
   est_cook_time_min |-> None, cook_speed |-> "fast",
   difficulty |-> "easy", flags |-> AllFlags \ {"is_nut_free"},
   tastes |-> Some(w_sour), cuisine_list |-> Some(w_thai),
   healthiness_score |-> Some(95), features |-> <<-1, 1>>]

RowStew ==
  [recipe_title |-> "stew", est_prep_time_min |-> Some(30),
   est_cook_time_min |-> Some(60), cook_speed |-> "slow",
   difficulty |-> "hard", flags |-> {"is_halal"},
   tastes |-> None, cuisine_list |-> Some(<<"u", "k">>),
   healthiness_score |-> None, features |-> <<1, 2>>]

RowPool == {RowCurry, RowCurryAgain, RowCake, RowSalad, RowStew}

\* recipes_extended.csv as loaded: at least one row (TfidfVectorizer cannot
\* be fitted on an empty corpus).
Catalogs == UNION {[1..n -> RowPool] : n \in 1..MaxRows}

Setting(k, v) == [k |-> k, v |-> v]

\* The dicts built from at most n of the given settings (a later setting of
\* a key replaces an earlier one).
RECURSIVE DictsFrom(_, _)
DictsFrom(settings, n) ==
  IF n = 0 THEN {EmptyDict}
  ELSE LET smaller == DictsFrom(settings, n - 1)
       IN  smaller \cup
           {Put(d, settings[i].k, settings[i].v) :
              d \in smaller,
              i \in 1..Len(settings)}

\* What parse_user_goals can return for some user text: json.loads of the
\* model's answer, or {} when it does not parse.
ExtractorSettings ==
  << Setting("cook_speed", Some([s |-> "fast"])),
     Setting("healthiness_min", Some(90)),
     Setting("healthiness_min", Some(5)),
     Setting("healthiness_min", None),
     Setting("max_total_minutes", Some(20)),
     Setting("num_results", Some(2)),
     Setting("num_results", Some(0)),
     Setting("num_results", Some(-1)),
     Setting("tastes_include", Some(<<w_Spicy, w_thai>>)),
     Setting("is_vegan", Some(TRUE)) >>

ExtractorOutputs == DictsFrom(ExtractorSettings, MaxExtract)

\* The values of top_n a caller of recommend_from_text or of
\* get_top_similar_recipes passes.
TopNs == (-1)..MaxTop

----------------------------------------------------------------------------
(* The recommendation pipeline: one request at a time goes through         *)
(* recommend_from_text (pipeline.py lines 119-184).                        *)

NoUser == [top_n |-> 0, raw |-> EmptyDict]

NoResult ==
  [constraints |-> EmptyDict, candidate_count |-> 0, anchor_recipe |-> None,
   similar_recipes |-> <<>>, explanation |-> "", used_relaxation |-> FALSE]

NoCall == [fn |-> "none"]
NoRet == [value |-> None]

\* The request threads of the server's pool.
Callers == 1..MaxCallers

\* A thread outside load_similarity_assets, holding no assets tuple.
CallerIdle == [at |-> "idle", obj |-> None]

\* The state of the memoized load_similarity_assets before any call: no
\* entry in the cache, the body never run, no tuple handed to a caller.
\* cache is the identity of the cached tuple, builds counts the runs of
\* the body, handed is the set of identities returned so far.
NotLoaded ==
  [cache |-> None, builds |-> 0, handed |-> {},
   callers |-> [t \in Callers |-> CallerIdle]]

\* The state after one completed call: tuple 1 built and cached.
LoadedOnce ==
  [cache |-> Some(1), builds |-> 1, handed |-> {1},
   callers |-> [t \in Callers |-> CallerIdle]]

\* The anchor's card carries similarity_score = 1.0 (line 175).
One == [num |-> 1, den |-> 1]

\* What get_response can answer to the explanation prompt.
LlmAnswers == {"These recipes fit your goals."}

RequestIdle ==
  /\ user = NoUser
  /\ constraints = EmptyDict
  /\ candidate_idx = <<>>
  /\ anchor_idx = None
  /\ similar = <<>>
  /\ result = NoResult
  /\ trace = <<>>

Init ==
  /\ catalog \in Catalogs
  /\ pc = "idle"
  /\ RequestIdle
  /\ assets = LoadedOnce
  /\ call = NoCall
  /\ ret = NoRet

\* Lines 130-144: the extractor answers, the constraints are normalized, the
\* first filter runs and the result dict is created.
SubmitWith(top_n, raw) ==
  /\ pc = "idle"
  /\ LET c == normalize_constraints(Some(raw))
         idx == filter_recipes_by_constraints(catalog, c)
     IN  /\ user' = [top_n |-> top_n, raw |-> raw]
         /\ constraints' = c
         /\ candidate_idx' = idx
         /\ result' = [NoResult EXCEPT !.constraints = c,
                                       !.candidate_count = Len(idx)]
         /\ trace' = <<"parse_user_goals", "filter">>
         /\ pc' = "filtered"
  /\ UNCHANGED assets
  /\ UNCHANGED <<catalog, anchor_idx, similar, call, ret>>

\* Line 132 when get_response raises inside parse_user_goals (the call is
\* outside its try block): the exception leaves recommend_from_text.
SubmitExtractorRaisesWith(top_n) ==
  /\ pc = "idle"
  /\ user' = [top_n |-> top_n, raw |-> EmptyDict]
  /\ trace' = <<"parse_user_goals">>
  /\ pc' = "raised"
  /\ UNCHANGED assets
  /\ UNCHANGED <<catalog, constraints, candidate_idx, anchor_idx, similar,
                 result, call, ret>>

\* recommend_from_text(user_text, top_n) is called; the extractor answers
\* some JSON object for the text.
Submit ==
  /\ pc = "idle"
  /\ \E top_n \in TopNs, raw \in ExtractorOutputs : SubmitWith(top_n, raw)

SubmitExtractorRaises ==
  /\ pc = "idle"
  /\ \E top_n \in TopNs : SubmitExtractorRaisesWith(top_n)

\* Mutant: the `return result` of line 165 is missing, so an empty relaxed
\* filter falls through to the anchor selection.
RelaxFallsThrough ==
  /\ pc = "filtered"
  /\ Len(candidate_idx) = 0
  /\ LET relaxed == Relaxed(constraints)
         candidate_idx_relaxed == filter_recipes_by_constraints(catalog, relaxed)
     IN  IF Len(candidate_idx_relaxed) > 0
         THEN /\ constraints' = relaxed
              /\ candidate_idx' = candidate_idx_relaxed
              /\ result' = [result EXCEPT
                              !.constraints = relaxed,
                              !.candidate_count = Len(candidate_idx_relaxed),
                              !.used_relaxation = TRUE]
         ELSE /\ result' = [result EXCEPT !.explanation = NoResultsMessage]
              /\ UNCHANGED <<constraints, candidate_idx>>
  /\ pc' = "relaxed"
  /\ trace' = Append(trace, "filter_relaxed")
  /\ UNCHANGED assets
  /\ UNCHANGED <<catalog, user, anchor_idx, similar, call, ret>>

\* Lines 146-165: the first filter was empty; relax and filter once more.
Relax ==
  /\ pc = "filtered"
  /\ Len(candidate_idx) = 0
  /\ LET relaxed == Relaxed(constraints)
         candidate_idx_relaxed == filter_recipes_by_constraints(catalog, relaxed)
     IN  IF Len(candidate_idx_relaxed) > 0
         THEN /\ constraints' = relaxed
              /\ candidate_idx' = candidate_idx_relaxed
              /\ result' = [result EXCEPT
                              !.constraints = relaxed,
                              !.candidate_count = Len(candidate_idx_relaxed),
                              !.used_relaxation = TRUE]
              /\ pc' = "relaxed"
         ELSE /\ result' = [result EXCEPT !.explanation = NoResultsMessage]
              /\ pc' = "done"
              /\ UNCHANGED <<constraints, candidate_idx>>
  /\ trace' = Append(trace, "filter_relaxed")
  /\ UNCHANGED assets
  /\ UNCHANGED <<catalog, user, anchor_idx, similar, call, ret>>

\* Lines 167-175: the anchor is picked and serialized.
PickAnchor ==
  /\ \/ pc = "filtered" /\ Len(candidate_idx) > 0
     \/ pc = "relaxed"
  /\ \E a \in pick_anchor_recipe_index(catalog, candidate_idx) :
        /\ anchor_idx' = a
        /\ IF a = None
           THEN /\ result' = [result EXCEPT !.explanation = NoAnchorMessage]
                /\ pc' = "done"
           ELSE /\ result' = [result EXCEPT !.anchor_recipe =
                                Some(SerializeRecipeRow(catalog, a[1], One))]
                /\ pc' = "anchored"
  /\ trace' = Append(trace, "pick_anchor_recipe_index")
  /\ UNCHANGED assets
  /\ UNCHANGED <<catalog, user, constraints, candidate_idx, similar, call, ret>>

\* Lines 177-181: the similar recipes among the candidates.
FindSimilar ==
  /\ pc = "anchored"
  /\ \E df \in get_similar_recipes_with_constraints(
                 catalog, anchor_idx[1], candidate_idx,
                 NumResults(constraints, user.top_n)) :
        /\ similar' = df
        /\ result' = [result EXCEPT !.similar_recipes =
                        [i \in 1..Len(df) |->
                           SerializeRecipeRow(catalog, df[i].id,
                                              df[i].similarity_score)]]
  /\ trace' = Append(trace, "get_top_similar_recipes")
  /\ pc' = "ranked"
  /\ UNCHANGED assets
  /\ UNCHANGED <<catalog, user, constraints, candidate_idx, anchor_idx, call, ret>>

\* Mutant: the early return of lines 67-68 is missing, the generator is
\* asked also when the similar frame is empty.
ExplainAlwaysAsks ==
  /\ pc = "ranked"
  /\ \E answer \in LlmAnswers :
        result' = [result EXCEPT !.explanation = answer]
  /\ trace' = Append(trace, "get_response")
  /\ pc' = "done"
  /\ UNCHANGED assets
  /\ UNCHANGED <<catalog, user, constraints, candidate_idx, anchor_idx,
                 similar, call, ret>>

\* Lines 183-184 with explain_recommendations (66-96): the fixed sentence
\* for an empty similar frame, else the generator's answer.
Explain ==
  /\ pc = "ranked"
  /\ IF similar = <<>>
     THEN /\ result' = [result EXCEPT !.explanation = NoMatchMessage]
          /\ trace' = trace
     ELSE /\ \E answer \in LlmAnswers :
               result' = [result EXCEPT !.explanation = answer]
          /\ trace' = Append(trace, "get_response")
  /\ pc' = "done"
  /\ UNCHANGED assets
  /\ UNCHANGED <<catalog, user, constraints, candidate_idx, anchor_idx,
                 similar, call, ret>>

\* Line 95 when get_response raises: explain_recommendations has no handler,
\* so the exception leaves recommend_from_text and no result is returned.
ExplainRaises ==
  /\ pc = "ranked"
  /\ similar # <<>>
  /\ trace' = Append(trace, "get_response")
  /\ pc' = "raised"
  /\ UNCHANGED assets
  /\ UNCHANGED <<catalog, user, constraints, candidate_idx, anchor_idx,
                 similar, result, call, ret>>

\* The call is over (returned or raised); nothing of it is kept.
Return ==
  /\ pc \in {"done", "raised"}
  /\ pc' = "idle"
  /\ user' = NoUser
  /\ constraints' = EmptyDict
  /\ candidate_idx' = <<>>
  /\ anchor_idx' = None
  /\ similar' = <<>>
  /\ result' = NoResult
  /\ trace' = <<>>
  /\ UNCHANGED assets
  /\ UNCHANGED <<catalog, call, ret>>

Next ==
  \/ Submit
  \/ SubmitExtractorRaises
  \/ Relax
  \/ PickAnchor
  \/ FindSimilar
  \/ Explain
  \/ ExplainRaises
  \/ Return

Spec == Init /\ [][Next]_vars

----------------------------------------------------------------------------
(* get_top_similar_recipes called on its own, over every catalog, index    *)
(* and limit.                                                              *)

InitRank ==
  /\ catalog \in Catalogs
  /\ pc = "rank"
  /\ RequestIdle
  /\ assets = LoadedOnce
  /\ call = NoCall
  /\ ret = NoRet

CallTopSimilar(recipe_index, top_n) ==
  /\ pc = "rank"
  /\ call = NoCall
  /\ call' = [fn |-> "get_top_similar_recipes",
              recipe_index |-> recipe_index, top_n |-> top_n]
  /\ ret' \in get_top_similar_recipes(catalog, recipe_index, top_n)
  /\ UNCHANGED assets
  /\ UNCHANGED <<catalog, pc, user, constraints, candidate_idx, anchor_idx,
                 similar, result, trace>>

NextRank ==
  \E recipe_index \in (-1)..MaxRows, top_n \in TopNs :
     CallTopSimilar(recipe_index, top_n)

SpecRank == InitRank /\ [][NextRank]_vars

----------------------------------------------------------------------------
(* Properties of the pipeline (specification Spec).                        *)

\* The constraints the request was normalized to, and the two filter stages
\* as the specification describes them.
NormalizedOfRequest == normalize_constraints(Some(user.raw))

FirstStage == filter_recipes_by_constraints(catalog, NormalizedOfRequest)

\* cook_speed removed, healthiness_min replaced by max(0, healthiness_min -
\* 10) when it was set, every other field equal to the normalized one.
RelaxedOfRequest ==
  LET n == NormalizedOfRequest
  IN  [k \in (DOMAIN n) \ {"cook_speed"} |->
         IF k = "healthiness_min" /\ n[k] # None
         THEN Some(Max(0, n[k][1] - 10))
         ELSE n[k]]

SecondStage == filter_recipes_by_constraints(catalog, RelaxedOfRequest)

\* s is t with some entries left out, the order kept.
IsSubsequence(s, t) ==
  \E f \in [1..Len(s) -> 1..Len(t)] :
     /\ \A i \in 1..Len(s) : s[i] = t[f[i]]
     /\ \A i, j \in 1..Len(s) : i < j => f[i] < f[j]

C2_AnchorIsFirstMaximum ==
  pc = "anchored" =>
     \A b \in Range(candidate_idx) :
        LET ha == catalog[anchor_idx[1] + 1].healthiness_score
            hb == catalog[b + 1].healthiness_score
        IN  /\ HealthGE(ha, hb)
            /\ HealthGE(hb, ha) => anchor_idx[1] <= b

\* C3: the response describes the stage used for anchor selection: a
\* non-empty first filter gives used_relaxation = FALSE, the normalized
\* constraints and the first CandidateSet's size; an empty first filter and
\* a non-empty relaxed one give used_relaxation = TRUE, the relaxed
\* constraints and the relaxed CandidateSet's size.
C3_ResponseDescribesStage ==
  pc \in {"relaxed", "anchored", "ranked", "done"} =>
     /\ Len(FirstStage) > 0 =>
          /\ result.used_relaxation = FALSE
          /\ result.constraints = NormalizedOfRequest
          /\ result.candidate_count = Len(FirstStage)
     /\ (Len(FirstStage) = 0 /\ Len(SecondStage) > 0) =>
          /\ result.used_relaxation = TRUE
          /\ result.constraints = RelaxedOfRequest
          /\ result.candidate_count = Len(SecondStage)

\* The scenario of the specification: cook_speed "fast" and healthiness_min
\* 90 match nothing, the relaxed constraints (healthiness_min 80) do.
C3_RelaxedTo80 ==
  /\ pc = "done"
  /\ Get(user.raw, "cook_speed") = Some([s |-> "fast"])
  /\ Get(user.raw, "healthiness_min") = Some(90)
  /\ result.used_relaxation = TRUE
  /\ "cook_speed" \notin DOMAIN result.constraints
  /\ Get(result.constraints, "healthiness_min") = Some(80)
  /\ result.candidate_count >= 1

\* C4: the relaxed filter runs at most once per call and only right after an
\* empty first filter; when it is empty too the call ends there with the
\* "no results" response, and neither the ranker nor the generator is
\* called.
C4_SingleRelaxationThenTerminal ==
  /\ \A i \in 1..Len(trace) :
        trace[i] = "filter_relaxed" =>
           /\ i = 3
           /\ trace[2] = "filter"
           /\ Len(FirstStage) = 0
  /\ (Len(trace) >= 3 /\ trace[3] = "filter_relaxed" /\ Len(SecondStage) = 0) =>
        /\ pc = "done"
        /\ trace = <<"parse_user_goals", "filter", "filter_relaxed">>
        /\ result.anchor_recipe = None
        /\ result.similar_recipes = <<>>
        /\ result.candidate_count = 0
        /\ result.used_relaxation = FALSE
        /\ result.explanation = NoResultsMessage

\* A call that relaxed, found nothing and ended.
C4_NoResultsReached ==
  /\ pc = "done"
  /\ trace = <<"parse_user_goals", "filter", "filter_relaxed">>
  /\ Len(FirstStage) = 0
  /\ Len(SecondStage) = 0
  /\ result.explanation = NoResultsMessage

\* C7: every similar recipe is a member of the CandidateSet used for the
\* anchor (the rows matching the reported constraints), is not the anchor,
\* and the list is in the ranker's order; when the CandidateSet is exactly
\* {anchor} the list is empty.
C7_SimilarWithinCandidates ==
  (pc \in {"ranked", "done"} /\ result.anchor_recipe # None) =>
     LET cand == Range(filter_recipes_by_constraints(catalog, result.constraints))
         a == result.anchor_recipe[1].id
         sim == result.similar_recipes
     IN  /\ \A i \in 1..Len(sim) : sim[i].id \in cand /\ sim[i].id # a
         /\ \E raw \in get_top_similar_recipes(catalog, a, OverFetch) :
               IsSubsequence(
                 [i \in 1..Len(sim) |-> sim[i].id],
                 [i \in 1..Len(raw.df) |-> raw.df[i].id])
         /\ cand = {a} => sim = <<>>

\* The CandidateSet is the anchor alone, the ranker finds recipes similar to
\* it outside the CandidateSet, and the similar list is empty.
C7_OnlyTheAnchorIsCandidate ==
  /\ pc = "done"
  /\ result.anchor_recipe # None
  /\ result.candidate_count = 1
  /\ result.similar_recipes = <<>>
  /\ \E raw \in get_top_similar_recipes(catalog, result.anchor_recipe[1].id,
                                        OverFetch) : raw.df # <<>>

----------------------------------------------------------------------------
(* Properties of the ranker (specification SpecRank).                      *)

\* A call of get_top_similar_recipes with an index inside the matrix.
RankedValidAnchor ==
  /\ call.fn = "get_top_similar_recipes"
  /\ call.recipe_index >= 0
  /\ call.recipe_index < Len(catalog)

\* C5 as stated: for a valid anchor and every limit, the result never holds
\* the anchor's identifier, never holds two entries with the same title, is
\* in non-increasing order of similarity score and has at most limit
\* entries (none for a limit below 1).
C5_TopSimilarContract ==
  RankedValidAnchor =>
     /\ ret.raised = ""
     /\ \A i \in 1..Len(ret.df) : ret.df[i].id # call.recipe_index
     /\ \A i, j \in 1..Len(ret.df) :
           i # j => ret.df[i].recipe_title # ret.df[j].recipe_title
     /\ \A i \in 1..(Len(ret.df) - 1) :
           ScoreGE(ret.df[i].similarity_score, ret.df[i + 1].similarity_score)
     /\ Len(ret.df) <= Max(0, call.top_n)

\* C6 as stated: a valid anchor and a limit <= 0 give an empty result and
\* no error.
C6_NonPositiveLimitIsEmpty ==
  (RankedValidAnchor /\ call.top_n <= 0) =>
     /\ ret.raised = ""
     /\ ret.df = <<>>

----------------------------------------------------------------------------
(* filter_recipes_by_constraints called on its own, then once more with    *)
(* one more predicate.                                                     *)

FilterSettings ==
  << Setting("max_total_minutes", Some(20)),
     Setting("max_total_minutes", Some(40)),
     Setting("cook_speed", Some([s |-> "fast"])),
     Setting("cook_speed", Some([l |-> <<"fast", "slow">>])),
     Setting("cook_speed", Some([l |-> <<>>])),
     Setting("difficulty_max", Some("easy")),
     Setting("difficulty_max", Some("medium")),
     Setting("difficulty_max", Some("expert")),
     Setting("is_vegan", Some(TRUE)),
     Setting("is_vegan", Some(FALSE)),
     Setting("is_nut_free", Some(TRUE)),
     Setting("is_halal", Some(TRUE)),
     Setting("tastes_include", Some(<<w_spicy>>)),
     Setting("tastes_include", Some(<<w_Spicy, w_sour>>)),
     Setting("tastes_include", Some(<<>>)),
     Setting("tastes_exclude", Some(<<w_sweet>>)),
     Setting("cuisines_include", Some(<<w_thai>>)),
     Setting("cuisines_include", Some(<<w_t_ai>>)),
     Setting("healthiness_min", Some(80)),
     Setting("healthiness_min", Some(0)),
     Setting("healthiness_min", None) >>

FilterInputs == DictsFrom(FilterSettings, MaxSet)

FilterCatalogs == UNION {[1..n -> RowPool] : n \in 1..MaxFilterRows}

\* The list fields of a Constraints value, and entries to add to them.
ListFields == {"tastes_include", "tastes_exclude", "cuisines_include"}
ListEntries == {w_spicy, w_sour, w_thai, w_t_ai}

\* The constraints obtained from c by setting one more field (one that c
\* leaves unset) or by adding one more entry to a list field.
OneMorePredicate(c) ==
  {Put(c, FilterSettings[i].k, FilterSettings[i].v) :
     i \in {j \in 1..Len(FilterSettings) :
              /\ Get(c, FilterSettings[j].k) = None
              /\ FilterSettings[j].v # None}}
  \cup
  {Put(c, k, Some(Append(c[k][1], e))) :
     k \in {f \in ListFields : Get(c, f) # None}, e \in ListEntries}

InitFilter ==
  /\ catalog \in FilterCatalogs
  /\ pc = "filter"
  /\ RequestIdle
  /\ assets = LoadedOnce
  /\ call = NoCall
  /\ ret = NoRet

CallFilter(c) ==
  /\ pc = "filter"
  /\ call = NoCall
  /\ call' = [fn |-> "filter_recipes_by_constraints", c |-> c]
  /\ ret' = [idx |-> filter_recipes_by_constraints(catalog, c), before |-> None]
  /\ UNCHANGED assets
  /\ UNCHANGED <<catalog, pc, user, constraints, candidate_idx, anchor_idx,
                 similar, result, trace>>

\* The same catalog filtered again with one more predicate; the previous
\* result is kept beside the new one.
CallFilterWithOneMore ==
  /\ pc = "filter"
  /\ call.fn = "filter_recipes_by_constraints"
  /\ ret.before = None
  /\ \E c \in OneMorePredicate(call.c) :
        /\ call' = [fn |-> "filter_recipes_by_constraints", c |-> c]
        /\ ret' = [idx |-> filter_recipes_by_constraints(catalog, c),
                   before |-> Some(ret.idx)]
  /\ UNCHANGED assets
  /\ UNCHANGED <<catalog, pc, user, constraints, candidate_idx, anchor_idx,
                 similar, result, trace>>

NextFilter ==
  \/ \E c \in FilterInputs : CallFilter(c)
  \/ CallFilterWithOneMore

SpecFilter == InitFilter /\ [][NextFilter]_vars

\* "Contained" as the specification reads it for one text cell.
CellContains(cell, pat) == IsSubstringCI(FillNaStr(cell), pat)

\* The predicates of section 4.5 that c sets, on one row.
RowSatisfies(row, c) ==
  LET max_total == Get(c, "max_total_minutes")
      cook_speed == Get(c, "cook_speed")
      difficulty_max == Get(c, "difficulty_max")
      tastes_inc == OrEmptyList(Get(c, "tastes_include"))
      tastes_exc == OrEmptyList(Get(c, "tastes_exclude"))
      cuisines_inc == OrEmptyList(Get(c, "cuisines_include"))
      healthiness_min == Get(c, "healthiness_min")
  IN  /\ max_total # None =>
           FillNa0(row.est_prep_time_min) + FillNa0(row.est_cook_time_min)
              <= max_total[1]
      /\ CookSpeedTruthy(cook_speed) =>
           \E i \in 1..Len(CookSpeedList(cook_speed[1])) :
              row.cook_speed = CookSpeedList(cook_speed[1])[i]
      /\ difficulty_max = Some("easy") => row.difficulty = "easy"
      /\ difficulty_max = Some("medium") => row.difficulty \in {"easy", "medium"}
      /\ difficulty_max = Some("hard") => row.difficulty \in {"easy", "medium", "hard"}
      /\ \A flag \in Range(FLAGS) :
           Get(c, flag) = Some(TRUE) => flag \in row.flags
      /\ \A i \in 1..Len(tastes_inc) : CellContains(row.tastes, tastes_inc[i])
      /\ \A i \in 1..Len(tastes_exc) : ~CellContains(row.tastes, tastes_exc[i])
      /\ \A i \in 1..Len(cuisines_inc) : CellContains(row.cuisine_list, cuisines_inc[i])
      /\ healthiness_min # None =>
           /\ row.healthiness_score # None
           /\ row.healthiness_score[1] >= healthiness_min[1]

\* C8 as stated: the filter returns exactly the identifiers of the rows
\* that satisfy every set predicate, in catalog order.
C8_FilterReturnsExactlyTheMatches ==
  call.fn = "filter_recipes_by_constraints" =>
     ret.idx = SelectSeq(Ids(catalog),
                         LAMBDA id : RowSatisfies(catalog[id + 1], call.c))

\* C9: one more field set, or one more entry in a list field, never adds a
\* recipe to the CandidateSet.
C9_FilterIsMonotonic ==
  (call.fn = "filter_recipes_by_constraints" /\ ret.before # None) =>
     Range(ret.idx) \subseteq Range(ret.before[1])

\* One more predicate removed some, and not all, of the candidates.
C9_StrictlyFewerCandidates ==
  /\ call.fn = "filter_recipes_by_constraints"
  /\ ret.before # None
  /\ Len(ret.idx) > 0
  /\ Len(ret.idx) < Len(ret.before[1])

----------------------------------------------------------------------------
(* normalize_constraints called on its own, then once more on its result.  *)

TasteEntries == {w_spicy, w_Spicy, w_thai, <<>>}

TasteLists == UNION {[1..n -> TasteEntries] : n \in 0..MaxTastes}

\* The raw objects given to normalize_constraints: None, or a dict whose
\* list fields are missing, null or lists.
NormalizeInputs ==
  {None} \cup
  {Some(d) : d \in
     {t @@ cu @@ o :
        t \in {EmptyDict, [tastes_include |-> None]}
              \cup {[tastes_include |-> Some(l)] : l \in TasteLists},
        cu \in {EmptyDict, [cuisines_include |-> None],
                [cuisines_include |-> Some(<<>>)],
                [cuisines_include |-> Some(<<w_thai>>)],
                [cuisines_include |-> Some(<<w_Thai, <<>> >>)]},
        o \in {EmptyDict, [cook_speed |-> Some([s |-> "fast"])]}}}

InitNorm ==
  /\ catalog = <<RowCurry>>
  /\ pc = "normalize"
  /\ RequestIdle
  /\ assets = LoadedOnce
  /\ call = NoCall
  /\ ret = NoRet

CallNormalize(x) ==
  /\ pc = "normalize"
  /\ call = NoCall
  /\ call' = [fn |-> "normalize_constraints", c |-> x, raw |-> x]
  /\ ret' = [value |-> normalize_constraints(x),
             arg_after |-> ArgAfterNormalize(x),
             first |-> None]
  /\ UNCHANGED assets
  /\ UNCHANGED <<catalog, pc, user, constraints, candidate_idx, anchor_idx,
                 similar, result, trace>>

\* normalize_constraints applied to the dict the first call returned.
CallNormalizeAgain ==
  /\ pc = "normalize"
  /\ call.fn = "normalize_constraints"
  /\ ret.first = None
  /\ call' = [fn |-> "normalize_constraints", c |-> Some(ret.value),
              raw |-> call.raw]
  /\ ret' = [value |-> normalize_constraints(Some(ret.value)),
             arg_after |-> ArgAfterNormalize(Some(ret.value)),
             first |-> Some(ret.value)]
  /\ UNCHANGED assets
  /\ UNCHANGED <<catalog, pc, user, constraints, candidate_idx, anchor_idx,
                 similar, result, trace>>

NextNorm ==
  \/ \E x \in NormalizeInputs : CallNormalize(x)
  \/ CallNormalizeAgain

SpecNorm == InitNorm /\ [][NextNorm]_vars

\* C10: normalizing the result of normalize_constraints gives that result
\* again, and a call leaves its argument as it was.
C10_NormalizeIsIdempotent ==
  call.fn = "normalize_constraints" =>
     /\ ret.arg_after = call.c
     /\ ret.first # None => ret.value = ret.first[1]

\* A second pass over a result whose first pass moved a misfiled entry and
\* dropped an empty one.
C10_SecondPassAfterRepair ==
  /\ call.fn = "normalize_constraints"
  /\ ret.first # None
  /\ call.raw # None
  /\ Get(call.raw[1], "tastes_include") = Some(<<w_thai, <<>> >>)
  /\ Get(ret.first[1], "tastes_include") = Some(<<>>)
  /\ ret.value = ret.first[1]

\* The argument of the call in progress as a dict, and its two list fields.
NormalizeArg == IF call.c = None THEN EmptyDict ELSE call.c[1]

ArgTastes == OrEmptyList(Get(NormalizeArg, "tastes_include"))

ArgCuisines == OrEmptyList(Get(NormalizeArg, "cuisines_include"))

InVocabulary(t) == Lower(t) \in TASTE_VOCAB

OutOfVocabulary(t) == Lower(t) \notin TASTE_VOCAB

NonEmptyOutOfVocabulary(t) == t # <<>> /\ Lower(t) \notin TASTE_VOCAB

ListKeys == {"tastes_include", "cuisines_include"}

\* Every field but the two lists is in the result exactly as in the argument.
OtherFieldsUnchanged ==
  /\ DOMAIN ret.value \ ListKeys = DOMAIN NormalizeArg \ ListKeys
  /\ \A k \in DOMAIN NormalizeArg \ ListKeys : ret.value[k] = NormalizeArg[k]

\* C11 as stated: every tastes_include entry whose lower-cased value is not
\* in the vocabulary is appended to cuisines_include after the existing
\* cuisines, in order; every in-vocabulary entry stays in tastes_include; no
\* entry is lost; every other field is unchanged.
C11_EveryEntryKeptOrMoved ==
  call.fn = "normalize_constraints" =>
     /\ Get(ret.value, "tastes_include")
          = Some(SelectSeq(ArgTastes, InVocabulary))
     /\ Get(ret.value, "cuisines_include")
          = Some(ArgCuisines \o SelectSeq(ArgTastes, OutOfVocabulary))
     /\ Len(ret.value["tastes_include"][1])
          + Len(ret.value["cuisines_include"][1])
          = Len(ArgTastes) + Len(ArgCuisines)
     /\ OtherFieldsUnchanged

\* C11 amended: every NON-EMPTY tastes_include entry whose lower-cased value
\* is not in the vocabulary is appended to cuisines_include after the
\* existing cuisines, in order; every in-vocabulary entry stays in
\* tastes_include; empty entries of tastes_include are dropped and are the
\* only entries lost; every other field is unchanged.
C11_NonEmptyEntryKeptOrMoved ==
  call.fn = "normalize_constraints" =>
     /\ Get(ret.value, "tastes_include")
          = Some(SelectSeq(ArgTastes, InVocabulary))
     /\ Get(ret.value, "cuisines_include")
          = Some(ArgCuisines \o SelectSeq(ArgTastes, NonEmptyOutOfVocabulary))
     /\ Len(ret.value["tastes_include"][1])
          + Len(ret.value["cuisines_include"][1])
          = Len(ArgTastes) + Len(ArgCuisines)
              - Len(SelectSeq(ArgTastes, LAMBDA t : t = <<>>))
     /\ OtherFieldsUnchanged

\* A first call that kept a mixed-case taste, moved a cuisine word behind
\* the existing cuisines and passed cook_speed through.
C11_MisfiledCuisineMoved ==
  /\ call.fn = "normalize_constraints"
  /\ ret.first = None
  /\ ArgTastes = <<w_thai, w_Spicy>>
  /\ ArgCuisines = <<w_Thai, <<>> >>
  /\ "cook_speed" \in DOMAIN NormalizeArg
  /\ ret.value["tastes_include"] = Some(<<w_Spicy>>)
  /\ ret.value["cuisines_include"] = Some(<<w_Thai, <<>>, w_thai>>)
  /\ ret.value["cook_speed"] = NormalizeArg["cook_speed"]

----------------------------------------------------------------------------
(* backend/similarity_engine.py, load_similarity_assets: the body of lines *)
(* 75-113 behind functools.lru_cache(maxsize=1) (line 68), called by the   *)
(* request threads of the server (pipeline.py line 130) after the startup  *)
(* hook of app.py.  The cache wrapper looks the key up, and on a miss runs *)
(* the body without holding any lock and stores the result afterwards; a   *)
(* result whose key was stored meanwhile by another thread is returned to  *)
(* its caller and the cache keeps the entry it already has.                *)

RequestUntouched ==
  UNCHANGED <<catalog, user, constraints, candidate_idx, anchor_idx, similar,
              result, trace, call, ret>>

InitLoad ==
  /\ catalog = <<RowCurry>>
  /\ pc = "startup"
  /\ RequestIdle
  /\ call = NoCall
  /\ ret = NoRet
  /\ assets = NotLoaded

\* app.py lines 88-89 with SKIP_WARM_UP unset: warm_up() calls
\* load_similarity_assets() once, before any request is served.
WarmUp ==
  /\ pc = "startup"
  /\ pc' = "serving"
  /\ assets' = LoadedOnce
  /\ RequestUntouched

\* app.py line 88 with SKIP_WARM_UP set: nothing is loaded at startup.
SkipWarmUp ==
  /\ pc = "startup"
  /\ pc' = "serving"
  /\ UNCHANGED assets
  /\ RequestUntouched

\* A request thread calls load_similarity_assets() and the cache holds the
\* entry: the cached tuple is returned.
CacheHit(t) ==
  /\ pc = "serving"
  /\ assets.callers[t].at = "idle"
  /\ assets.cache # None
  /\ assets' = [assets EXCEPT
                  !.callers[t] = [at |-> "returned", obj |-> assets.cache],
                  !.handed = @ \cup {assets.cache[1]}]
  /\ UNCHANGED pc
  /\ RequestUntouched

\* ... and the cache is empty: the thread enters the body (line 75) to
\* build a new tuple.
CacheMiss(t) ==
  /\ pc = "serving"
  /\ assets.callers[t].at = "idle"
  /\ assets.cache = None
  /\ assets' = [assets EXCEPT
                  !.builds = @ + 1,
                  !.callers[t] = [at |-> "building",
                                  obj |-> Some(assets.builds + 1)]]
  /\ UNCHANGED pc
  /\ RequestUntouched

\* Line 113: the body returns its tuple; the wrapper stores it unless the
\* key is in the cache by now, and returns it to the caller either way.
FinishBuild(t) ==
  /\ pc = "serving"
  /\ assets.callers[t].at = "building"
  /\ assets' = [assets EXCEPT
                  !.cache = IF @ = None THEN assets.callers[t].obj ELSE @,
                  !.callers[t].at = "returned",
                  !.handed = @ \cup {assets.callers[t].obj[1]}]
  /\ UNCHANGED pc
  /\ RequestUntouched

\* The request that made the call ends; its thread serves the next one.
EndRequest(t) ==
  /\ pc = "serving"
  /\ assets.callers[t].at = "returned"
  /\ assets' = [assets EXCEPT !.callers[t] = CallerIdle]
  /\ UNCHANGED pc
  /\ RequestUntouched

NextLoad ==
  \/ WarmUp
  \/ SkipWarmUp
  \/ \E t \in Callers : CacheHit(t)
  \/ \E t \in Callers : CacheMiss(t)
  \/ \E t \in Callers : FinishBuild(t)
  \/ \E t \in Callers : EndRequest(t)

SpecLoad == InitLoad /\ [][NextLoad]_vars

\* C12: under any interleaving the body of load_similarity_assets runs at
\* most once per process, and every caller receives the same object.
C12_BuiltAtMostOnce ==
  /\ assets.builds <= 1
  /\ Cardinality(assets.handed) <= 1
  /\ \A t, u \in Callers :
        (assets.callers[t].at = "returned" /\ assets.callers[u].at = "returned")
           => assets.callers[t].obj = assets.callers[u].obj

\* Warm-up skipped and two first callers overlapped: the body ran twice and
\* the two callers hold different tuples.
C12_TwoBuildsHandedOut ==
  /\ assets.builds = 2
  /\ assets.callers[1] = [at |-> "returned", obj |-> Some(1)]
  /\ assets.callers[2] = [at |-> "returned", obj |-> Some(2)]

----------------------------------------------------------------------------
(* The explanation step of recommend_from_text (specification Spec).       *)

\* How many times the explanation generator was called in this request.
GeneratorCalls == Len(SelectSeq(trace, LAMBDA e : e = "get_response"))

\* C13: when the explanation generator fails after an anchor and a
\* non-empty similar list were found, the request does not fail: it never
\* ends by raising once the generator was called, and a finished request
\* carries the anchor, the similar recipes and an explanation string.
C13_ExplanationFailureIsRecovered ==
  (GeneratorCalls >= 1 /\ pc # "ranked") =>
     /\ pc = "done"
     /\ result.anchor_recipe # None
     /\ result.similar_recipes # <<>>
     /\ result.explanation # ""

\* The generator raised after the ranking: the call ended with the
\* exception although an anchor and similar recipes had been found.
C13_RaisedAfterRanking ==
  /\ pc = "raised"
  /\ GeneratorCalls = 1
  /\ anchor_idx # None
  /\ similar # <<>>
  /\ result.anchor_recipe # None
  /\ result.similar_recipes # <<>>

\* C14: a request with an anchor and an empty similar list ends without a
\* call of the explanation generator, with a non-null anchor_recipe and the
\* fixed sentence; the generator is called only when an anchor and a
\* non-empty similar list exist, and then exactly once.
C14_GeneratorOnlyForSimilar ==
  /\ GeneratorCalls <= 1
  /\ GeneratorCalls = 1 => (anchor_idx # None /\ similar # <<>>)
  /\ (pc = "done" /\ anchor_idx # None /\ similar = <<>>) =>
        /\ GeneratorCalls = 0
        /\ result.anchor_recipe # None
        /\ result.similar_recipes = <<>>
        /\ result.explanation = NoMatchMessage
  /\ (pc \in {"done", "raised"} /\ anchor_idx # None /\ similar # <<>>) =>
        GeneratorCalls = 1

\* A finished request whose CandidateSet held only the anchor in a catalog
\* of several recipes: anchor returned, no similar recipe, fixed sentence.
C14_AnchorWithoutSimilar ==
  /\ pc = "done"
  /\ Len(catalog) >= 2
  /\ anchor_idx # None
  /\ result.anchor_recipe # None
  /\ similar = <<>>
  /\ result.explanation = NoMatchMessage
  /\ GeneratorCalls = 0

====
